---------------------------- MODULE Spec2Model ----------------------------
(***************************************************************************)
(* Communication-matrix to DBC conversion: the row assembler, the bit      *)
(* layout, the bus partition and the BO_/SG_ encoder of the two            *)
(* generators, src/core/dbc_generator.py and the standalone                *)
(* src/dbc_generator.py, and main() of src/cli/commands.py, which reads    *)
(* the sheet with src/core/excel_handler.py and drives the core generator. *)
(*                                                                         *)
(* Text is a sequence of one-character strings, so that strip, upper,      *)
(* split, startswith, int() and str() are computed character by character. *)
(***************************************************************************)
EXTENDS Integers, Sequences, FiniteSets, TLC

(***************************************************************************)
(* Bounds of the model.                                                    *)
(***************************************************************************)
MaxRows == 3
MaxSigRows == 2
MaxNodeRows == 2
MaxCliRows == 2
MaxUnitLen == 2
MaxFieldRows == 2
MaxColumns == 2
MaxLabelRows == 1
MaxFrameRows == 2

(***************************************************************************)
(* Python values.                                                          *)
(***************************************************************************)
\* pandas NaN in a text cell: a token no text can equal
NaN == <<"NaN">>
\* Python None
None == <<"None">>
\* the empty str
Empty == << >>

\* a numeric cell: NaN, a number, or a text typed into the cell
NumNaN == [k |-> "nan", v |-> 0]
Num(n) == [k |-> "num", v |-> n]
Text(t) == [k |-> "text", v |-> t]

(***************************************************************************)
(* str methods.                                                            *)
(***************************************************************************)
DecDigits == <<"0", "1", "2", "3", "4", "5", "6", "7", "8", "9">>
HexDigits == DecDigits \o <<"A", "B", "C", "D", "E", "F">>
LowerLetters == <<"a", "b", "c", "d", "e", "f", "g", "h", "i", "j", "k", "l", "m",
                  "n", "o", "p", "q", "r", "s", "t", "u", "v", "w", "x", "y", "z">>
UpperLetters == <<"A", "B", "C", "D", "E", "F", "G", "H", "I", "J", "K", "L", "M",
                  "N", "O", "P", "Q", "R", "S", "T", "U", "V", "W", "X", "Y", "Z">>
Whitespace == {" ", "\t", "\n", "\r"}

Range(s) == {s[i] : i \in DOMAIN s}

IndexOf(c, s) == CHOOSE i \in DOMAIN s : s[i] = c

\* str.upper() of one character
UpperChar(c) == IF c \in Range(LowerLetters) THEN UpperLetters[IndexOf(c, LowerLetters)] ELSE c
\* str.lower() of one character
LowerChar(c) == IF c \in Range(UpperLetters) THEN LowerLetters[IndexOf(c, UpperLetters)] ELSE c

Upper(s) == [i \in DOMAIN s |-> UpperChar(s[i])]
Lower(s) == [i \in DOMAIN s |-> LowerChar(s[i])]

RECURSIVE LStrip(_)
LStrip(s) == IF s # << >> /\ Head(s) \in Whitespace THEN LStrip(Tail(s)) ELSE s

RECURSIVE RStrip(_)
RStrip(s) == IF s # << >> /\ s[Len(s)] \in Whitespace THEN RStrip(SubSeq(s, 1, Len(s) - 1)) ELSE s

\* str.strip()
Strip(s) == RStrip(LStrip(s))

\* str.startswith(p)
StartsWith(s, p) == Len(s) >= Len(p) /\ SubSeq(s, 1, Len(p)) = p

\* str.endswith(p)
EndsWith(s, p) == Len(s) >= Len(p) /\ SubSeq(s, Len(s) - Len(p) + 1, Len(s)) = p

\* c in s, for a one-character c
Contains(s, c) == c \in Range(s)

\* s.split('_')[-1]: the text after the last underscore
RECURSIVE LastPart(_)
LastPart(s) ==
    IF s = << >> THEN << >>
    ELSE IF s[Len(s)] = "_" THEN << >>
    ELSE LastPart(SubSeq(s, 1, Len(s) - 1)) \o <<s[Len(s)]>>

\* p in s, for a text p
HasSubstring(s, p) == \E i \in 1..(Len(s) - Len(p) + 1) : SubSeq(s, i, i + Len(p) - 1) = p

\* str.isdigit()
IsDigit(s) == s # << >> /\ \A i \in DOMAIN s : s[i] \in Range(DecDigits)

(***************************************************************************)
(* int(text), int(text, 16), str(int) and format(int, 'X').                *)
(***************************************************************************)
DigitsOf(base) == IF base = 16 THEN HexDigits ELSE DecDigits

\* the digits part of an integer literal: digits, single underscores between
WellFormedDigits(s, base) ==
    /\ s # << >>
    /\ \A i \in DOMAIN s : UpperChar(s[i]) \in Range(DigitsOf(base)) \/ s[i] = "_"
    /\ s[1] # "_" /\ s[Len(s)] # "_"
    /\ \A i \in 1..(Len(s) - 1) : ~(s[i] = "_" /\ s[i + 1] = "_")

RECURSIVE DigitsValue(_, _)
DigitsValue(s, base) ==
    IF s = << >> THEN 0
    ELSE IF s[Len(s)] = "_" THEN DigitsValue(SubSeq(s, 1, Len(s) - 1), base)
    ELSE DigitsValue(SubSeq(s, 1, Len(s) - 1), base) * base
           + (IndexOf(UpperChar(s[Len(s)]), DigitsOf(base)) - 1)

\* the literal without its sign
Unsigned(s) == IF s # << >> /\ s[1] \in {"+", "-"} THEN Tail(s) ELSE s
SignOf(s) == IF s # << >> /\ s[1] = "-" THEN -1 ELSE 1

\* the literal without its base prefix (base 16 accepts 0x / 0X, then one '_')
Unprefixed(s, base) ==
    IF base = 16 /\ (StartsWith(s, <<"0", "x">>) \/ StartsWith(s, <<"0", "X">>))
    THEN (IF Len(s) > 2 /\ s[3] = "_" THEN SubSeq(s, 4, Len(s)) ELSE SubSeq(s, 3, Len(s)))
    ELSE s

\* int(text, base): ok = FALSE stands for ValueError
PyInt(text, base) ==
    LET s == Strip(text)
        d == Unprefixed(Unsigned(s), base)
    IN  IF WellFormedDigits(d, base)
        THEN [ok |-> TRUE, val |-> SignOf(s) * DigitsValue(d, base)]
        ELSE [ok |-> FALSE, val |-> 0]

RECURSIVE NatStr(_, _)
NatStr(n, base) ==
    IF n < base THEN <<DigitsOf(base)[n + 1]>>
    ELSE NatStr(n \div base, base) \o <<DigitsOf(base)[(n % base) + 1]>>

\* str(n) of an int
Str(n) == IF n < 0 THEN <<"-">> \o NatStr(-n, 10) ELSE NatStr(n, 10)

\* f"{n:X}"
HexStr(n) == IF n < 0 THEN <<"-">> \o NatStr(-n, 16) ELSE NatStr(n, 16)

(***************************************************************************)
(* float: sign, integer part and the fractional digits without trailing    *)
(* zeros, so that str(float) and f"{x:.3f}" are computed digit by digit.    *)
(* The magnitudes are those that Python prints in positional notation.     *)
(***************************************************************************)
Float(neg, int, frac) == [neg |-> neg, int |-> int, frac |-> frac]

\* float(n) of an int
FloatOfInt(n) == Float(n < 0, IF n < 0 THEN -n ELSE n, << >>)

\* str(x) of a float: the shortest text that reads back as x
FloatStr(x) ==
    (IF x.neg THEN <<"-">> ELSE << >>) \o NatStr(x.int, 10) \o <<".">>
      \o (IF x.frac = << >> THEN <<"0">> ELSE x.frac)

\* str.rstrip(c) for a one-character c
RECURSIVE RStripChar(_, _)
RStripChar(s, c) ==
    IF s # << >> /\ s[Len(s)] = c THEN RStripChar(SubSeq(s, 1, Len(s) - 1), c) ELSE s

DigitAt(frac, i) == IF i <= Len(frac) THEN IndexOf(frac[i], DecDigits) - 1 ELSE 0

\* the digits behind the third one make more than half a unit of the third,
\* or exactly half with the third digit odd
RoundsUp(frac) ==
    \/ DigitAt(frac, 4) > 5
    \/ DigitAt(frac, 4) = 5 /\ Len(frac) > 4
    \/ DigitAt(frac, 4) = 5 /\ Len(frac) = 4 /\ DigitAt(frac, 3) % 2 = 1

\* f"{x:.3f}"
Fixed3(x) ==
    LET t == x.int * 1000 + DigitAt(x.frac, 1) * 100 + DigitAt(x.frac, 2) * 10
               + DigitAt(x.frac, 3) + (IF RoundsUp(x.frac) THEN 1 ELSE 0)
    IN  (IF x.neg THEN <<"-">> ELSE << >>) \o NatStr(t \div 1000, 10) \o <<".">>
          \o <<DecDigits[((t \div 100) % 10) + 1], DecDigits[((t \div 10) % 10) + 1],
               DecDigits[(t % 10) + 1]>>

\* the texts float() reads as an infinity
InfinityTexts == {<<"i", "n", "f">>, <<"i", "n", "f", "i", "n", "i", "t", "y">>}
IsInfinityText(t) == Lower(Unsigned(Strip(t))) \in InfinityTexts

\* int(float(value)) of a numeric cell that is not NaN: "ok" with the value,
\* "ValueError" for a text float() rejects, "OverflowError" for an infinity;
\* of the texts of the matrices below, float() accepts the infinities and
\* the integer literals
IntOfFloat(cell) ==
    IF cell.k = "num" THEN [exc |-> "ok", val |-> cell.v]
    ELSE IF IsInfinityText(cell.v) THEN [exc |-> "OverflowError", val |-> 0]
    ELSE IF PyInt(cell.v, 10).ok THEN [exc |-> "ok", val |-> PyInt(cell.v, 10).val]
    ELSE [exc |-> "ValueError", val |-> 0]

\* int(value) of a numeric cell that is not NaN
IntOf(cell) ==
    IF cell.k = "num" THEN [exc |-> "ok", val |-> cell.v]
    ELSE IF PyInt(cell.v, 10).ok THEN [exc |-> "ok", val |-> PyInt(cell.v, 10).val]
    ELSE [exc |-> "ValueError", val |-> 0]

(***************************************************************************)
(* Literals of the sources.                                                *)
(***************************************************************************)
Vector__XXX == <<"V", "e", "c", "t", "o", "r", "_", "_", "X", "X", "X">>
Unknown == <<"U", "n", "k", "n", "o", "w", "n">>
Tx == <<"T", "x">>
Rx == <<"R", "x">>
Intel == <<"I", "n", "t", "e", "l">>
Motorola == <<"M", "o", "t", "o", "r", "o", "l", "a">>
IntelSpellings == {<<"i", "n", "t", "e", "l">>,
                   <<"l", "i", "t", "t", "l", "e", " ", "e", "n", "d", "i", "a", "n">>,
                   <<"l", "i", "t", "t", "l", "e">>}
PCU_P == <<"P", "C", "U", "_", "P">>
DotDbc == <<".", "d", "b", "c">>
DefaultDlc == 8
DefaultLength == 8
Ohm == <<"O", "h", "m">>

\* characters beyond ASCII, each one element of a text, named by its code point
Omega == "U+03A9"
DegreeCelsius == "U+2103"
Zhong == "U+4E2D"
NonAscii == {Omega, DegreeCelsius, Zhong, "U+62A5", "U+6587", "U+6807", "U+8BC6", "U+7B26",
             "U+540D", "U+79F0", "U+4FE1", "U+53F7"}

\* labels of the columns of the matrix sheet
MsgIdLabel == <<"M", "s", "g", " ", "I", "D", "\n", "U+62A5", "U+6587", "U+6807", "U+8BC6", "U+7B26">>
MsgNameLabel == <<"M", "s", "g", " ", "N", "a", "m", "e", "\n", "U+62A5", "U+6587", "U+540D", "U+79F0">>
SignalNameLabel == <<"S", "i", "g", "n", "a", "l", " ", "N", "a", "m", "e", "\n",
                     "U+4FE1", "U+53F7", "U+540D", "U+79F0">>

\* ord(char) < 128
OrdBelow128(char) == char \notin NonAscii

(***************************************************************************)
(* The matrix: one record per row, one field per column.  id, name, dlc,   *)
(* sig, order, unit and the node indicator cells ind[col] are text or NaN;  *)
(* sbyte, sbit and len are numeric cells; factor, offset, min and max are  *)
(* numeric cells whose number is a float.                                  *)
(***************************************************************************)
Row(id, name, dlc, sig, sbyte, sbit, len, order, ind) ==
    [id |-> id, name |-> name, dlc |-> dlc, sig |-> sig, sbyte |-> sbyte,
     sbit |-> sbit, len |-> len, order |-> order, ind |-> ind,
     factor |-> NumNaN, offset |-> NumNaN, min |-> NumNaN, max |-> NumNaN, unit |-> NaN]

\* the row with its factor, offset, minimum, maximum and unit cells filled in
WithValues(row, factor, offset, min, max, unit) ==
    [row EXCEPT !.factor = factor, !.offset = offset, !.min = min, !.max = max,
                !.unit = unit]

\* pd.isna / pd.notna
IsNa(cell) == cell = NaN
NumIsNa(cell) == cell.k = "nan"

\* str(value) of a text cell: NaN prints as 'nan'
StrOf(cell) == IF IsNa(cell) THEN <<"n", "a", "n">> ELSE cell

VARIABLES
    gen,              \* what runs: "core", "standalone", or "cli" (main(), which drives core)
    matrix,           \* matrix_data: the rows, in source order (for main(): the sheet's
                      \* rows until the read)
    node_columns,     \* node_columns / available_node_types
    target,           \* target_bus_type (core), node_type (standalone); Empty when not given
    out,              \* output_file, as os.path.splitext splits it
    is_canfd,         \* the is_canfd argument of the core generate_dbc (--canfd of main())
    role_columns,     \* labels of the sheet's columns that hold message and signal data
    pc,               \* position in generate_dbc
    idx,              \* number of rows the running pass has consumed
    todo,             \* bus_types still to be iterated
    bus,              \* bus_type of the running iteration
    messages,         \* ordered dict of messages, as a sequence of entries
    signals,          \* core: dict key -> list; standalone: list
    current,          \* current_msg_id (core), current_msg_name (standalone)
    files,            \* file system: file name -> lines written
    result,           \* return value of generate_dbc; None while running
    source,           \* the input file of main(): "ok", "unreadable" or "no_sheet"
    columns,          \* labels of the sheet's columns beside the role columns
    exit_code         \* return value of main(); None while running

vars == <<gen, matrix, node_columns, target, out, is_canfd, role_columns, pc, idx, todo,
          bus, messages, signals, current, files, result, source, columns, exit_code>>

inputs == <<gen, matrix, node_columns, target, out, is_canfd, role_columns>>

\* the state of main() around generate_dbc
shell == <<source, columns, exit_code>>

(***************************************************************************)
(* sorted(): list order of str, by code point.                             *)
(***************************************************************************)
Ascii == <<" ", "+", "-", ".">> \o DecDigits \o UpperLetters \o <<"_">> \o LowerLetters
Ord(c) == IndexOf(c, Ascii)

RECURSIVE StrLess(_, _)
StrLess(a, b) ==
    IF b = << >> THEN FALSE
    ELSE IF a = << >> THEN TRUE
    ELSE IF Head(a) = Head(b) THEN StrLess(Tail(a), Tail(b))
    ELSE Ord(Head(a)) < Ord(Head(b))

RECURSIVE Sorted(_)
Sorted(S) ==
    IF S = {} THEN << >>
    ELSE LET m == CHOOSE x \in S : \A y \in S \ {x} : StrLess(x, y)
         IN  <<m>> \o Sorted(S \ {m})

(***************************************************************************)
(* Core generator, src/core/dbc_generator.py.                              *)
(***************************************************************************)
IsHexText(t) == StartsWith(t, <<"0", "x">>) \/ StartsWith(t, <<"0", "X">>)

\* int() of a message id text: base 16 behind a 0x / 0X prefix, else base 10
ParseMessageId(t) == PyInt(t, IF IsHexText(t) THEN 16 ELSE 10)

\* message_id_dec, the key of the messages dict
MessageIdDec(message_id) ==
    IF IsHexText(message_id) THEN Str(ParseMessageId(message_id).val) ELSE message_id

\* message_id_hex
MessageIdHex(message_id) ==
    IF IsHexText(message_id) THEN message_id
    ELSE <<"0", "x">> \o HexStr(ParseMessageId(message_id).val)

\* message_name of a header row
MessageName(row, message_id) ==
    LET n == Strip(StrOf(row.name))
    IN  IF n = Empty THEN <<"M", "S", "G", "_">> \o MessageIdHex(message_id) ELSE n

\* dlc of a header row
MessageDlc(row) ==
    IF IsNa(row.dlc) THEN Str(DefaultDlc)
    ELSE LET d == Strip(row.dlc)
         IN  IF IsDigit(d) /\ PyInt(d, 10).val >= 0 /\ PyInt(d, 10).val <= 15
             THEN d ELSE Str(DefaultDlc)

\* sender of a header row
MessageSender(row) == Vector__XXX

Keys(msgs) == {msgs[i].key : i \in DOMAIN msgs}

\* one iteration of the row loop of _extract_messages; i is the row's index
extract_messages_row(msgs, row, i) ==
    IF IsNa(row.id) THEN msgs
    ELSE LET message_id == Strip(row.id)
         IN  IF message_id = Empty THEN msgs
             ELSE IF ~ParseMessageId(message_id).ok THEN msgs
             ELSE IF MessageIdDec(message_id) \in Keys(msgs) THEN msgs
             ELSE Append(msgs, [key |-> MessageIdDec(message_id),
                                name |-> MessageName(row, message_id),
                                dlc |-> MessageDlc(row),
                                sender |-> MessageSender(row),
                                src |-> i])

\* the except clause left out: current_msg_id keeps its value
KeepCurrentMessage(cur) == cur

\* current_msg_id after a header row whose id does not parse
AfterInvalidHeader(cur) == None

\* current_msg_id after the row
next_current_msg_id(cur, row) ==
    IF IsNa(row.id) THEN cur
    ELSE LET msg_id_str == Strip(row.id)
         IN  IF msg_id_str = Empty THEN cur
             ELSE IF ParseMessageId(msg_id_str).ok
                  THEN Str(ParseMessageId(msg_id_str).val)
                  ELSE AfterInvalidHeader(cur)

\* byte_order of a signal row
SignalByteOrder(row) ==
    IF IsNa(row.order) THEN Motorola
    ELSE IF Lower(Strip(row.order)) \in IntelSpellings THEN Intel ELSE Motorola

\* signal_length of a signal row
SignalLength(row) ==
    IF ~NumIsNa(row.len) /\ IntOfFloat(row.len).exc = "ok" /\ IntOfFloat(row.len).val > 0
    THEN Str(IntOfFloat(row.len).val) ELSE Str(DefaultLength)

\* the bit arithmetic with MSB-first numbering for rows that declare Motorola
MotorolaStartBit(start_byte, bit_in_byte, byte_order) ==
    IF Lower(byte_order) = Lower(Motorola) THEN start_byte * 8 + (7 - bit_in_byte)
    ELSE start_byte * 8 + bit_in_byte

\* the bit arithmetic
StartBitOf(start_byte, bit_in_byte, byte_order) == start_byte * 8 + bit_in_byte

\* actual_start_bit of a signal row
ActualStartBit(row) ==
    IF /\ ~NumIsNa(row.sbyte) /\ ~NumIsNa(row.sbit)
       /\ IntOfFloat(row.sbyte).exc = "ok" /\ IntOfFloat(row.sbit).exc = "ok"
    THEN StartBitOf(IntOfFloat(row.sbyte).val, IntOfFloat(row.sbit).val, SignalByteOrder(row))
    ELSE 0

\* receiver of a signal row
SignalReceiver(row) == Vector__XXX

\* str(float(value)), or the default for NaN and for a text float() rejects
FloatStrOr(cell, default) == IF cell.k = "num" THEN FloatStr(cell.v) ELSE default

\* factor and offset of a signal row
SignalFactor(row) == FloatStrOr(row.factor, <<"1", ".", "0">>)
SignalOffset(row) == FloatStrOr(row.offset, <<"0", ".", "0">>)

\* min_val and max_val of a signal row
SignalMin(row) == FloatStrOr(row.min, <<"0">>)
SignalMax(row) == FloatStrOr(row.max, <<"0">>)

\* unit of a signal row
SignalUnit(row) == IF IsNa(row.unit) THEN Empty ELSE Strip(row.unit)

\* the signal dict built from a row
CoreSignal(row, i) ==
    [name |-> Strip(row.sig),
     start_bit |-> Str(ActualStartBit(row)),
     length |-> SignalLength(row),
     byte_order |-> SignalByteOrder(row),
     factor |-> SignalFactor(row),
     offset |-> SignalOffset(row),
     min |-> SignalMin(row),
     max |-> SignalMax(row),
     unit |-> SignalUnit(row),
     receiver |-> SignalReceiver(row),
     src |-> i]

\* signals[key].insert(0, sig)
PrependSignal(sigs, key, sig) ==
    [k \in DOMAIN sigs \cup {key} |->
        IF k = key THEN (IF key \in DOMAIN sigs THEN <<sig>> \o sigs[key] ELSE <<sig>>)
        ELSE sigs[k]]

\* signals[key].append(sig)
AppendSignal(sigs, key, sig) ==
    [k \in DOMAIN sigs \cup {key} |->
        IF k = key THEN (IF key \in DOMAIN sigs THEN Append(sigs[key], sig) ELSE <<sig>>)
        ELSE sigs[k]]

\* the row yields a signal of the current message
YieldsSignal(cur, row) ==
    IsNa(row.id) /\ cur # None /\ ~IsNa(row.sig) /\ Strip(row.sig) # Empty

\* one iteration of the row loop of _extract_signals, on the signals dict
extract_signals_row(sigs, cur, row, i) ==
    IF YieldsSignal(cur, row) THEN AppendSignal(sigs, cur, CoreSignal(row, i)) ELSE sigs

\* int(float(value)) raises an exception that the except clauses of the row
\* loop do not name
SignalRowRaises(cur, row) ==
    /\ YieldsSignal(cur, row)
    /\ \/ ~NumIsNa(row.len) /\ IntOfFloat(row.len).exc = "OverflowError"
       \/ /\ ~NumIsNa(row.sbyte) /\ ~NumIsNa(row.sbit)
          /\ \/ IntOfFloat(row.sbyte).exc = "OverflowError"
             \/ IntOfFloat(row.sbyte).exc = "ok" /\ IntOfFloat(row.sbit).exc = "OverflowError"

\* the sheet has a column for the message id: 'ID' with 'Msg' or the Chinese for message
HasMessageIdColumn(cols) ==
    \E col \in cols :
        /\ HasSubstring(col, <<"I", "D">>)
        /\ HasSubstring(col, <<"M", "s", "g">>) \/ HasSubstring(col, <<"U+62A5", "U+6587">>)

\* the sheet has a column for the signal name: 'signal' with 'name' or the Chinese for name
HasSignalNameColumn(cols) ==
    \E col \in cols :
        /\ HasSubstring(Lower(col), <<"s", "i", "g", "n", "a", "l">>)
        /\ HasSubstring(Lower(col), <<"n", "a", "m", "e">>)
              \/ HasSubstring(Lower(col), <<"U+540D", "U+79F0">>)

\* the BO_ line of a message
CoreBoLine(msg) ==
    [kind |-> "BO_", id |-> msg.key, name |-> msg.name, dlc |-> msg.dlc,
     sender |-> msg.sender, src |-> msg.src]

\* the SG_ line of a signal
CoreSgLine(sig) ==
    [kind |-> "SG_", name |-> sig.name, start |-> sig.start_bit, length |-> sig.length,
     flag |-> "1", factor |-> sig.factor, offset |-> sig.offset, min |-> sig.min,
     max |-> sig.max, unit |-> Strip(sig.unit), receivers |-> <<sig.receiver>>,
     src |-> sig.src]

\* _generate_messages_and_signals: the BO_ and SG_ lines, in order
RECURSIVE generate_messages_and_signals(_, _)
generate_messages_and_signals(msgs, sigs) ==
    IF msgs = << >> THEN << >>
    ELSE LET msg == Head(msgs)
             sgs == IF msg.key \in DOMAIN sigs
                    THEN [j \in DOMAIN sigs[msg.key] |-> CoreSgLine(sigs[msg.key][j])]
                    ELSE << >>
         IN  <<CoreBoLine(msg)>> \o sgs \o generate_messages_and_signals(Tail(msgs), sigs)

\* the column has at least one cell that is not NaN
HasData(col) == \E i \in DOMAIN matrix : ~IsNa(matrix[i].ind[col])

\* parts[-1][-1]: the last character of the suffix
BusLetter(col) == IF LastPart(col) = << >> THEN << >> ELSE <<LastPart(col)[Len(LastPart(col))]>>

\* bus_suffix of a node column
BusSuffix(col) == LastPart(col)

\* bus_types found by generate_dbc
BusTypes ==
    {BusSuffix(node_columns[c]) : c \in {d \in DOMAIN node_columns :
        Contains(node_columns[d], "_") /\ HasData(node_columns[d])}}

\* the test of the target bus left out
TargetNeverMissing(bus_types, target_bus_type) == FALSE

\* a target bus is given and is none of the detected bus types
TargetMissing(bus_types, target_bus_type) ==
    target_bus_type # Empty /\ target_bus_type \notin bus_types

\* bus_types as the loop iterates it
BusTypesToGenerate(bus_types, target_bus_type) ==
    IF target_bus_type # Empty THEN {target_bus_type} ELSE bus_types

\* bus_output_file
BusOutputFile(bus_type) == out.base \o <<"_">> \o bus_type \o <<"C", "A", "N">> \o out.ext

\* _extract_nodes
extract_nodes ==
    Sorted({n \in {Strip(LastPart(node_columns[c])) : c \in {d \in DOMAIN node_columns :
        Contains(node_columns[d], "_")}} : n # Empty})

\* _generate_header and _generate_nodes: the lines before the messages
HeaderAndNodes ==
    <<[kind |-> "VERSION"], [kind |-> "NS_"], [kind |-> "BS_"]>> \o
    (IF extract_nodes # << >>
     THEN <<[kind |-> "BU_",
             nodes |-> IF Vector__XXX \in Range(extract_nodes) THEN extract_nodes
                       ELSE Append(extract_nodes, Vector__XXX)]>>
     ELSE << >>)

(***************************************************************************)
(* Standalone generator, src/dbc_generator.py.                             *)
(***************************************************************************)
\* _format_message_id
format_message_id(cell) ==
    LET message_id == Upper(Strip(StrOf(cell)))
    IN  IF StartsWith(message_id, <<"0", "X">>) THEN message_id
        ELSE <<"0", "x">> \o message_id

\* msg_name of a row: '' for a NaN cell
MsgNameOf(row) == IF IsNa(row.name) THEN Empty ELSE Strip(row.name)

\* sig_name of a row: '' for a NaN cell
SigNameOf(row) == IF IsNa(row.sig) THEN Empty ELSE Strip(row.sig)

\* the first node column that reads 'Tx' in the row, else 'Unknown'
RECURSIVE FirstTx(_, _)
FirstTx(cols, row) ==
    IF cols = << >> THEN Unknown
    ELSE IF row.ind[Head(cols)] = Tx THEN Head(cols)
    ELSE FirstTx(Tail(cols), row)

\* the node columns that read 'Rx' in the row, in column order
RxColumns(cols, row) == SelectSeq(cols, LAMBDA c : row.ind[c] = Rx)

\* int(row['Msg Length ...']) raises for this row
MsgLenRaises(row) ==
    /\ MsgNameOf(row) # Empty
    /\ ~IsNa(row.dlc)
    /\ ~PyInt(row.dlc, 10).ok

\* one iteration of the row loop of _extract_message_info
extract_message_info_row(msgs, row, i) ==
    IF MsgNameOf(row) # Empty /\ MsgNameOf(row) \notin Keys(msgs)
    THEN Append(msgs, [key |-> MsgNameOf(row),
                       id |-> format_message_id(row.id),
                       dlc |-> IF IsNa(row.dlc) THEN DefaultDlc ELSE PyInt(row.dlc, 10).val,
                       sender |-> FirstTx(node_columns, row),
                       src |-> i])
    ELSE msgs

\* current_msg_name after the row
next_current_msg_name(cur, row) == IF MsgNameOf(row) # Empty THEN MsgNameOf(row) ELSE cur

\* get_column_value(row, [...], default, float): the default for NaN and for
\* a text float() rejects
FloatCell(cell, default) == IF cell.k = "num" THEN cell.v ELSE default

\* int(value) if pd.notna(value) else default
IntCell(cell, default) == IF NumIsNa(cell) THEN default ELSE IntOf(cell).val

\* get_column_value(row, ['Unit...'], '', str).strip()
UnitOf(row) == IF IsNa(row.unit) THEN Empty ELSE Strip(row.unit)

\* the signal dict built from a row
SaSignal(cur, row, i) ==
    [msg_name |-> cur,
     sig_name |-> SigNameOf(row),
     start_bit |-> StartBitOf(IntCell(row.sbyte, 0), IntCell(row.sbit, 0),
                              IF IsNa(row.order) THEN Intel ELSE Strip(row.order)),
     signal_length |-> IntCell(row.len, DefaultLength),
     byte_order |-> IF IsNa(row.order) THEN Intel ELSE Strip(row.order),
     factor |-> FloatCell(row.factor, FloatOfInt(1)),
     offset |-> FloatCell(row.offset, FloatOfInt(0)),
     min_phys |-> FloatCell(row.min, FloatOfInt(0)),
     max_phys |-> FloatCell(row.max, FloatOfInt(0)),
     unit |-> UnitOf(row),
     receivers |-> RxColumns(node_columns, row),
     src |-> i]

\* row[label] raises KeyError in _extract_message_info
MessageInfoRaises(msgs, row) ==
    \/ MsgNameLabel \notin role_columns
    \/ MsgNameOf(row) # Empty /\ MsgNameOf(row) \notin Keys(msgs) /\ MsgIdLabel \notin role_columns

\* row[label] raises KeyError, or int() raises ValueError, in _extract_signal_info;
\* cur is current_msg_name as updated by this row
SignalInfoRaises(cur, row) ==
    \/ MsgNameLabel \notin role_columns
    \/ SignalNameLabel \notin role_columns
    \/ /\ cur # Empty /\ SigNameOf(row) # Empty
       /\ \E cell \in {row.sbyte, row.sbit, row.len} :
             ~NumIsNa(cell) /\ IntOf(cell).exc = "ValueError"

\* one iteration of the row loop of _extract_signal_info; cur is current_msg_name
\* as updated by this row
extract_signal_info_row(sigs, cur, row, i) ==
    IF cur # Empty /\ SigNameOf(row) # Empty THEN Append(sigs, SaSignal(cur, row, i)) ELSE sigs

\* messages[msg_name]['signals'] after the assignment loop
SignalsOf(msg, sigs) == SelectSeq(sigs, LAMBDA sg : sg.msg_name = msg.key)

\* the signals of a message that pass the node_type filter
FilteredSignals(msg, sigs, node_type) ==
    IF node_type = Empty THEN SignalsOf(msg, sigs)
    ELSE SelectSeq(SignalsOf(msg, sigs),
                   LAMBDA sg : node_type \in Range(sg.receivers) \/ msg.sender = node_type)

\* filtered_messages
FilteredMessages(msgs, sigs, node_type) ==
    IF node_type = Empty THEN msgs
    ELSE SelectSeq(msgs, LAMBDA m : FilteredSignals(m, sigs, node_type) # << >>)

\* int(msg_info['id'], 16) raises for some message that is emitted
IdRaises(msgs, sigs, node_type) ==
    \E i \in DOMAIN FilteredMessages(msgs, sigs, node_type) :
        ~PyInt(FilteredMessages(msgs, sigs, node_type)[i].id, 16).ok

\* receivers written on every SG_ line
EmittedReceivers(sg, node_type) ==
    IF node_type # Empty THEN <<node_type>>
    ELSE IF node_columns # << >> THEN node_columns ELSE <<PCU_P>>

\* the BO_ line of a message
SaBoLine(msg) ==
    [kind |-> "BO_", id |-> Str(PyInt(msg.id, 16).val), name |-> msg.key,
     dlc |-> Str(msg.dlc),
     sender |-> IF msg.sender # Unknown THEN msg.sender ELSE Vector__XXX,
     src |-> msg.src]

\* format_num
format_num(num) ==
    IF num.frac = << >>
    THEN Str(IF num.neg THEN -num.int ELSE num.int)
    ELSE RStripChar(RStripChar(Fixed3(num), "0"), ".")

\* byte_order_val is 1 whatever the signal's byte order
AlwaysIntelFlag(byte_order) == "1"

\* byte_order_val
ByteOrderVal(byte_order) ==
    IF HasSubstring(Lower(byte_order), Lower(Intel)) THEN "1" ELSE "0"

\* the SG_ line of a signal
SaSgLine(sg, node_type) ==
    [kind |-> "SG_", name |-> sg.sig_name,
     start |-> format_num(FloatOfInt(sg.start_bit)),
     length |-> format_num(FloatOfInt(sg.signal_length)),
     flag |-> ByteOrderVal(sg.byte_order),
     factor |-> format_num(sg.factor), offset |-> format_num(sg.offset),
     min |-> format_num(sg.min_phys), max |-> format_num(sg.max_phys),
     unit |-> sg.unit,
     receivers |-> EmittedReceivers(sg, node_type), src |-> sg.src]

\* the BO_ and SG_ lines, in order
RECURSIVE SaMessageLines(_, _, _)
SaMessageLines(msgs, sigs, node_type) ==
    IF msgs = << >> THEN << >>
    ELSE LET fs == FilteredSignals(Head(msgs), sigs, node_type)
         IN  <<SaBoLine(Head(msgs))>> \o [j \in DOMAIN fs |-> SaSgLine(fs[j], node_type)]
               \o SaMessageLines(Tail(msgs), sigs, node_type)

\* the lines before the messages
SaHeaderAndNodes(node_type) ==
    <<[kind |-> "VERSION"], [kind |-> "NS_"], [kind |-> "BS_"],
      [kind |-> "BU_", nodes |-> IF node_type # Empty THEN <<node_type>>
                                 ELSE IF node_columns # << >> THEN node_columns
                                 ELSE <<PCU_P>>]>>

\* the BA_DEF_ and BA_DEF_DEF_ blocks and the BA_ lines of the database
AttributeDefinitions ==
    <<[kind |-> "BA_DEF_"], [kind |-> "BA_DEF_DEF_"],
      [kind |-> "BA_", attr |-> "DBName", id |-> Empty, sig |-> Empty]>>

\* the BA_ lines of the messages and of their signals
RECURSIVE SaAttributeLines(_, _, _)
SaAttributeLines(msgs, sigs, node_type) ==
    IF msgs = << >> THEN << >>
    ELSE LET fs == FilteredSignals(Head(msgs), sigs, node_type)
             msg_id_dec == Str(PyInt(Head(msgs).id, 16).val)
         IN  <<[kind |-> "BA_", attr |-> "GenMsgSendType", id |-> msg_id_dec, sig |-> Empty],
               [kind |-> "BA_", attr |-> "GenMsgCycleTime", id |-> msg_id_dec, sig |-> Empty]>>
               \o [j \in DOMAIN fs |-> [kind |-> "BA_", attr |-> "GenSigStartValue",
                                        id |-> msg_id_dec, sig |-> fs[j].sig_name]]
               \o SaAttributeLines(Tail(msgs), sigs, node_type)

\* the VAL_ lines of the signals
RECURSIVE SaValueLines(_, _, _)
SaValueLines(msgs, sigs, node_type) ==
    IF msgs = << >> THEN << >>
    ELSE LET fs == FilteredSignals(Head(msgs), sigs, node_type)
         IN  [j \in DOMAIN fs |-> [kind |-> "VAL_", id |-> Str(PyInt(Head(msgs).id, 16).val),
                                   sig |-> fs[j].sig_name]]
               \o SaValueLines(Tail(msgs), sigs, node_type)

\* dbc_content
SaContent(msgs, sigs, node_type) ==
    SaHeaderAndNodes(node_type)
      \o SaMessageLines(FilteredMessages(msgs, sigs, node_type), sigs, node_type)
      \o AttributeDefinitions
      \o SaAttributeLines(FilteredMessages(msgs, sigs, node_type), sigs, node_type)
      \o SaValueLines(FilteredMessages(msgs, sigs, node_type), sigs, node_type)

\* ensure_ascii
RECURSIVE ensure_ascii(_)
ensure_ascii(content) ==
    IF content = << >> THEN << >>
    ELSE (IF OrdBelow128(Head(content)) THEN <<Head(content)>>
          ELSE IF Head(content) = Omega THEN Ohm
          ELSE << >>) \o ensure_ascii(Tail(content))

\* ensure_ascii on the text of one line
ensure_ascii_line(line) ==
    IF line.kind = "BU_"
    THEN [line EXCEPT !.nodes = [j \in DOMAIN @ |-> ensure_ascii(@[j])]]
    ELSE IF line.kind = "BO_"
    THEN [line EXCEPT !.id = ensure_ascii(@), !.name = ensure_ascii(@),
                      !.dlc = ensure_ascii(@), !.sender = ensure_ascii(@)]
    ELSE IF line.kind = "SG_"
    THEN [line EXCEPT !.name = ensure_ascii(@), !.start = ensure_ascii(@),
                      !.length = ensure_ascii(@), !.factor = ensure_ascii(@),
                      !.offset = ensure_ascii(@), !.min = ensure_ascii(@),
                      !.max = ensure_ascii(@), !.unit = ensure_ascii(@),
                      !.receivers = [j \in DOMAIN @ |-> ensure_ascii(@[j])]]
    ELSE IF line.kind \in {"BA_", "VAL_"}
    THEN [line EXCEPT !.id = ensure_ascii(@), !.sig = ensure_ascii(@)]
    ELSE line

\* the content as written: ensure_ascii(dbc_content)
SaWritten(msgs, sigs, node_type) ==
    [j \in DOMAIN SaContent(msgs, sigs, node_type) |->
        ensure_ascii_line(SaContent(msgs, sigs, node_type)[j])]

\* output_file, with the .dbc suffix ensured
SaOutputFile ==
    IF EndsWith(Lower(out.base \o out.ext), DotDbc) THEN out.base \o out.ext
    ELSE out.base \o out.ext \o DotDbc

(***************************************************************************)
(* generate_dbc of the core generator.                                     *)
(***************************************************************************)
CoreStart ==
    /\ pc = "start" /\ gen \in {"core", "cli"}
    /\ IF node_columns = << >>
       THEN /\ result' = FALSE /\ pc' = "done" /\ todo' = todo
       ELSE IF TargetMissing(BusTypes, target)
       THEN /\ result' = FALSE /\ pc' = "done" /\ todo' = todo
       ELSE /\ todo' = BusTypesToGenerate(BusTypes, target)
            /\ pc' = "loop" /\ result' = result
    /\ UNCHANGED <<inputs, shell, idx, bus, messages, signals, current, files>>

\* open(bus_output_file, 'w'), then the header and the node list
OpenBus ==
    /\ pc = "loop"
    /\ \E b \in todo :
        /\ bus' = b
        /\ todo' = todo \ {b}
        /\ files' = (BusOutputFile(b) :> HeaderAndNodes) @@ files
    /\ messages' = << >>
    /\ idx' = 0
    /\ pc' = "messages"
    /\ UNCHANGED <<inputs, shell, signals, current, result>>

\* open() raises for the bus of the iteration: the except clause returns False
OpenFails ==
    /\ pc = "loop"
    /\ \E b \in todo :
        /\ bus' = b
        /\ todo' = todo \ {b}
    /\ result' = FALSE
    /\ pc' = "done"
    /\ UNCHANGED <<inputs, shell, idx, messages, signals, current, files>>

ExtractMessagesRow ==
    /\ pc = "messages" /\ idx < Len(matrix) /\ HasMessageIdColumn(role_columns)
    /\ messages' = extract_messages_row(messages, matrix[idx + 1], idx + 1)
    /\ idx' = idx + 1
    /\ UNCHANGED <<inputs, shell, pc, todo, bus, signals, current, files, result>>

ExtractMessagesReturn ==
    /\ pc = "messages"
    /\ idx = Len(matrix) \/ ~HasMessageIdColumn(role_columns)
    /\ pc' = "signals"
    /\ idx' = 0
    /\ signals' = << >>
    /\ current' = None
    /\ UNCHANGED <<inputs, shell, todo, bus, messages, files, result>>

\* both role columns of _extract_signals are found
SignalColumnsFound == HasMessageIdColumn(role_columns) /\ HasSignalNameColumn(role_columns)

\* an exception of the row leaves the with block, which closes the file, and
\* reaches the except clause of generate_dbc
ExtractSignalsRow ==
    /\ pc = "signals" /\ idx < Len(matrix) /\ SignalColumnsFound
    /\ IF SignalRowRaises(current, matrix[idx + 1])
       THEN /\ result' = FALSE /\ pc' = "done" /\ UNCHANGED <<current, signals, idx>>
       ELSE /\ current' = next_current_msg_id(current, matrix[idx + 1])
            /\ signals' = extract_signals_row(signals, current, matrix[idx + 1], idx + 1)
            /\ idx' = idx + 1
            /\ UNCHANGED <<pc, result>>
    /\ UNCHANGED <<inputs, shell, todo, bus, messages, files>>

ExtractSignalsReturn ==
    /\ pc = "signals"
    /\ idx = Len(matrix) \/ ~SignalColumnsFound
    /\ pc' = "write"
    /\ UNCHANGED <<inputs, shell, idx, todo, bus, messages, signals, current, files, result>>

\* f.write(dbc_content) and the end of the with block
WriteBus ==
    /\ pc = "write"
    /\ files' = [files EXCEPT ![BusOutputFile(bus)] =
                    @ \o generate_messages_and_signals(messages, signals)]
    /\ pc' = "loop"
    /\ UNCHANGED <<inputs, shell, idx, todo, bus, messages, signals, current, result>>

CoreReturn ==
    /\ pc = "loop" /\ todo = {}
    /\ result' = TRUE
    /\ pc' = "done"
    /\ UNCHANGED <<inputs, shell, idx, todo, bus, messages, signals, current, files>>

(***************************************************************************)
(* generate_dbc of the standalone generator.                               *)
(***************************************************************************)
SaStart ==
    /\ pc = "start" /\ gen = "standalone"
    /\ pc' = "sa_messages"
    /\ idx' = 0
    /\ messages' = << >>
    /\ UNCHANGED <<inputs, shell, todo, bus, signals, current, files, result>>

SaMessageRow ==
    /\ pc = "sa_messages" /\ idx < Len(matrix)
    /\ IF \/ MessageInfoRaises(messages, matrix[idx + 1])
          \/ MsgNameOf(matrix[idx + 1]) \notin Keys(messages) /\ MsgLenRaises(matrix[idx + 1])
       THEN /\ result' = FALSE /\ pc' = "done" /\ UNCHANGED <<messages, idx>>
       ELSE /\ messages' = extract_message_info_row(messages, matrix[idx + 1], idx + 1)
            /\ idx' = idx + 1
            /\ UNCHANGED <<pc, result>>
    /\ UNCHANGED <<inputs, shell, todo, bus, signals, current, files>>

SaMessagesReturn ==
    /\ pc = "sa_messages" /\ idx = Len(matrix)
    /\ pc' = "sa_signals"
    /\ idx' = 0
    /\ signals' = << >>
    /\ current' = Empty
    /\ UNCHANGED <<inputs, shell, todo, bus, messages, files, result>>

SaSignalRow ==
    /\ pc = "sa_signals" /\ idx < Len(matrix)
    /\ IF SignalInfoRaises(next_current_msg_name(current, matrix[idx + 1]), matrix[idx + 1])
       THEN /\ result' = FALSE /\ pc' = "done" /\ UNCHANGED <<current, signals, idx>>
       ELSE /\ current' = next_current_msg_name(current, matrix[idx + 1])
            /\ signals' = extract_signal_info_row(signals, current', matrix[idx + 1], idx + 1)
            /\ idx' = idx + 1
            /\ UNCHANGED <<pc, result>>
    /\ UNCHANGED <<inputs, shell, todo, bus, messages, files>>

SaSignalsReturn ==
    /\ pc = "sa_signals" /\ idx = Len(matrix)
    /\ pc' = "sa_write"
    /\ UNCHANGED <<inputs, shell, idx, todo, bus, messages, signals, current, files, result>>

\* the content is built, then written in one piece
SaWrite ==
    /\ pc = "sa_write"
    /\ IF IdRaises(messages, signals, target)
       THEN /\ result' = FALSE /\ files' = files
       ELSE /\ files' = (SaOutputFile :> SaWritten(messages, signals, target)) @@ files
            /\ result' = TRUE
    /\ pc' = "done"
    /\ UNCHANGED <<inputs, shell, idx, todo, bus, messages, signals, current>>

\* open() raises: the except clause returns False
SaWriteFails ==
    /\ pc = "sa_write"
    /\ ~IdRaises(messages, signals, target)
    /\ result' = FALSE
    /\ pc' = "done"
    /\ UNCHANGED <<inputs, shell, idx, todo, bus, messages, signals, current, files>>

(***************************************************************************)
(* main() of src/cli/commands.py, with the ExcelHandler it drives.         *)
(***************************************************************************)
\* every cell of the row is NaN
AllNa(row) ==
    /\ IsNa(row.id) /\ IsNa(row.name) /\ IsNa(row.dlc) /\ IsNa(row.sig)
    /\ NumIsNa(row.sbyte) /\ NumIsNa(row.sbit) /\ NumIsNa(row.len) /\ IsNa(row.order)
    /\ NumIsNa(row.factor) /\ NumIsNa(row.offset) /\ NumIsNa(row.min)
    /\ NumIsNa(row.max) /\ IsNa(row.unit)
    /\ \A c \in DOMAIN row.ind : IsNa(row.ind[c])

\* temp_df.dropna(axis=0, how='all')
dropna(rows) == SelectSeq(rows, LAMBDA row : ~AllNa(row))

\* '_'.join(parts[:-1]): the text before the last underscore
PrefixOf(col_str) == SubSeq(col_str, 1, Len(col_str) - Len(LastPart(col_str)) - 1)

\* suffix.isalpha() and suffix.isupper()
IsUpperAlpha(suffix) == suffix # << >> /\ \A i \in DOMAIN suffix : suffix[i] \in Range(UpperLetters)

\* the label is taken as a node column
IsNodeColumn(col_str) ==
    /\ Contains(col_str, "_")
    /\ IsUpperAlpha(LastPart(col_str))
    /\ ~(StartsWith(PrefixOf(col_str), <<"L", "V">>) \/ EndsWith(PrefixOf(col_str), <<"E", "V">>))

\* ExcelHandler.extract_node_columns
extract_node_columns(cols) ==
    SelectSeq([i \in DOMAIN cols |-> Strip(cols[i])], IsNodeColumn)

\* step 1: read_matrix_file
CliRead ==
    /\ pc = "main" /\ gen = "cli"
    /\ IF source # "ok"
       THEN /\ exit_code' = 1 /\ pc' = "exit" /\ matrix' = matrix
       ELSE /\ matrix' = dropna(matrix) /\ pc' = "nodes" /\ exit_code' = exit_code
    /\ UNCHANGED <<gen, node_columns, target, out, is_canfd, role_columns, source, columns,
                   idx, todo, bus, messages, signals, current, files, result>>

\* steps 2 and 3: extract_node_columns, set_data
CliNodeColumns ==
    /\ pc = "nodes"
    /\ node_columns' = extract_node_columns(columns)
    /\ IF node_columns' = << >>
       THEN exit_code' = 1 /\ pc' = "exit"
       ELSE exit_code' = exit_code /\ pc' = "start"
    /\ UNCHANGED <<gen, matrix, target, out, is_canfd, role_columns, source, columns,
                   idx, todo, bus, messages, signals, current, files, result>>

\* step 4: the exit status after generate_dbc has returned
CliReturn ==
    /\ pc = "done" /\ gen = "cli"
    /\ exit_code' = IF result = TRUE THEN 0 ELSE 1
    /\ pc' = "exit"
    /\ UNCHANGED <<inputs, source, columns, idx, todo, bus, messages, signals, current,
                   files, result>>

\* a run of main()
NextCli ==
    \/ CliRead
    \/ CliNodeColumns
    \/ CoreStart
    \/ OpenBus
    \/ OpenFails
    \/ ExtractMessagesRow
    \/ ExtractMessagesReturn
    \/ ExtractSignalsRow
    \/ ExtractSignalsReturn
    \/ WriteBus
    \/ CoreReturn
    \/ CliReturn

\* a call of generate_dbc of either generator
Next ==
    \/ CoreStart
    \/ OpenBus
    \/ OpenFails
    \/ ExtractMessagesRow
    \/ ExtractMessagesReturn
    \/ ExtractSignalsRow
    \/ ExtractSignalsReturn
    \/ WriteBus
    \/ CoreReturn
    \/ SaStart
    \/ SaMessageRow
    \/ SaMessagesReturn
    \/ SaSignalRow
    \/ SaSignalsReturn
    \/ SaWrite
    \/ SaWriteFails

(***************************************************************************)
(* Matrices.                                                               *)
(***************************************************************************)
VCU_P == <<"V", "C", "U", "_", "P">>
VCU_E == <<"V", "C", "U", "_", "E">>
BMS_P == <<"B", "M", "S", "_", "P">>
OTHER_NODE == <<"O", "T", "H", "E", "R", "_", "N", "O", "D", "E">>
LV_CFG == <<"L", "V", "_", "C", "F", "G">>

Id0x100 == <<"0", "x", "1", "0", "0">>
Id0x200 == <<"0", "x", "2", "0", "0">>
Id256 == <<"2", "5", "6">>
Id0256 == <<"0", "2", "5", "6">>
IdInvalid == <<"z", "z">>
Blank == <<" ">>
NameA == <<"M", "s", "g", "A">>
NameB == <<"M", "s", "g", "B">>
Sig1 == <<"S", "1">>
Sig2 == <<"S", "2">>
NameZh == <<"M", Zhong>>
SigZh == <<"S", Zhong>>
Dlc8 == <<"8">>
Dlc4 == <<"4">>
OutFile == [base |-> <<"o", "u", "t">>, ext |-> DotDbc]

\* sequences over S of length 1..n
SeqsUpTo(S, n) == UNION {[1..k -> S] : k \in 1..n}

\* a header row: id, name and DLC cells, the node cells of a sender
HeaderRow(id, name, dlc, ind) == Row(id, name, dlc, NaN, NumNaN, NumNaN, NumNaN, NaN, ind)

\* a signal row: the id and name cells are empty
SignalRow(sig, sbyte, sbit, order, ind) == Row(NaN, NaN, NaN, sig, sbyte, sbit, NumNaN, order, ind)

AllCells(cols, v) == [c \in Range(cols) |-> v]

\* rows for the grouping of signals under headers
GroupRows ==
    {HeaderRow(id, NameA, Dlc8, AllCells(<<VCU_P>>, Tx)) : id \in {Id0x100, Id256, Id0256}}
    \cup {HeaderRow(id, NameB, Dlc4, AllCells(<<VCU_P>>, Tx)) : id \in {Id0x100, Id256, Id0256}}
    \cup {HeaderRow(IdInvalid, NaN, Dlc8, AllCells(<<VCU_P>>, Tx)),
          Row(Blank, NaN, NaN, Sig1, NumNaN, NumNaN, NumNaN, NaN, AllCells(<<VCU_P>>, Rx))}
    \cup {SignalRow(sig, NumNaN, NumNaN, NaN, AllCells(<<VCU_P>>, Rx)) : sig \in {Sig1, Sig2, NaN}}

\* signal rows for the bit layout
LayoutRows ==
    {SignalRow(Sig1, b, s, o, AllCells(<<VCU_P>>, Rx)) :
        b \in {NumNaN, Num(0), Num(1), Num(7)},
        s \in {NumNaN, Num(0), Num(7)},
        o \in {NaN, Intel, Motorola}}

\* node column lists, sorted
NodeConfigs == {<<VCU_E, VCU_P>>, <<BMS_P, VCU_P>>, <<OTHER_NODE, VCU_E>>}

\* rows for senders, receivers and buses
NodeRows(cols) ==
    {HeaderRow(Id0x100, NameA, Dlc8, ind) : ind \in [Range(cols) -> {NaN, Tx, Rx}]}
    \cup {HeaderRow(Id0x200, NameB, Dlc8, ind) : ind \in [Range(cols) -> {NaN, Tx, Rx}]}
    \cup {SignalRow(Sig1, NumNaN, NumNaN, NaN, ind) : ind \in [Range(cols) -> {NaN, Tx, Rx}]}

(***************************************************************************)
(* convert_from_excel of the standalone generator: load_matrix, then       *)
(* generate_dbc.                                                           *)
(***************************************************************************)
\* load_matrix: the label is taken as a node column
IsNodeLabel(col_str) ==
    /\ Contains(col_str, "_")
    /\ IsUpperAlpha(LastPart(col_str))
    /\ ~StartsWith(PrefixOf(col_str), <<"L", "V">>)
    /\ ~EndsWith(col_str, <<"E", "V">>)

\* the labels load_matrix appends whenever the sheet has them
AlwaysNodeColumns ==
    {PCU_P, <<"P", "C", "U", "_", "E">>, VCU_P, VCU_E, <<"V", "C", "U", "_", "C">>,
     <<"V", "C", "U", "_", "T">>, <<"V", "C", "U", "_", "B">>}

\* node_columns as load_matrix leaves it: without duplicates, sorted
load_matrix_columns(cols) ==
    Sorted({Strip(cols[i]) : i \in {j \in DOMAIN cols : IsNodeLabel(Strip(cols[j]))}}
             \cup (AlwaysNodeColumns \cap Range(cols)))

SaLoadMatrix ==
    /\ pc = "load" /\ gen = "standalone"
    /\ IF source # "ok"
       THEN /\ result' = FALSE /\ pc' = "done" /\ node_columns' = node_columns
       ELSE /\ node_columns' = load_matrix_columns(columns)
            /\ pc' = "start" /\ result' = result
    /\ UNCHANGED <<gen, matrix, target, out, is_canfd, role_columns, shell, idx, todo, bus,
                   messages, signals, current, files>>

\* a run of main(), or of convert_from_excel
NextSheet ==
    \/ CliRead
    \/ CliNodeColumns
    \/ CoreStart
    \/ OpenBus
    \/ OpenFails
    \/ ExtractMessagesRow
    \/ ExtractMessagesReturn
    \/ ExtractSignalsRow
    \/ ExtractSignalsReturn
    \/ WriteBus
    \/ CoreReturn
    \/ CliReturn
    \/ SaLoadMatrix
    \/ SaStart
    \/ SaMessageRow
    \/ SaMessagesReturn
    \/ SaSignalRow
    \/ SaSignalsReturn
    \/ SaWrite
    \/ SaWriteFails

\* column labels: a node column, configuration columns, and labels that
\* differ from these in one of the tested properties
LV1_EV == <<"L", "V", "1", "_", "E", "V">>
BMS_EV == <<"B", "M", "S", "_", "E", "V">>
XEV_P == <<"X", "E", "V", "_", "P">>
Msg_id == <<"M", "s", "g", "_", "i", "d">>
Remark == <<"R", "e", "m", "a", "r", "k">>
Labels == {VCU_P, LV1_EV, BMS_EV, XEV_P, Msg_id, Remark}

\* the column lists of a sheet: distinct labels
LabelConfigs == {cols \in SeqsUpTo(Labels, MaxColumns) :
                    \A i, j \in DOMAIN cols : i # j => cols[i] # cols[j]}

\* generate_dbc is called on a generator that holds the matrix and its node columns
DirectCall ==
    /\ source = "ok"
    /\ columns = node_columns
    /\ pc = "start"

\* the sheet has the columns of the message id, the message name and the signal name,
\* and CAN FD is not asked for
StandardSheet ==
    /\ role_columns = {MsgIdLabel, MsgNameLabel, SignalNameLabel}
    /\ is_canfd = FALSE

InitRun ==
    /\ idx = 0
    /\ todo = {}
    /\ bus = Empty
    /\ messages = << >>
    /\ signals = << >>
    /\ current = None
    /\ files = << >>
    /\ result = None
    /\ exit_code = None

Init ==
    /\ gen \in {"core", "standalone"}
    /\ node_columns = <<VCU_P>>
    /\ target = Empty
    /\ out = OutFile
    /\ matrix \in SeqsUpTo(GroupRows, MaxRows)
    /\ DirectCall
    /\ StandardSheet
    /\ InitRun

InitLayout ==
    /\ gen \in {"core", "standalone"}
    /\ node_columns = <<VCU_P>>
    /\ target = Empty
    /\ out = OutFile
    /\ \E rows \in SeqsUpTo(LayoutRows, MaxSigRows) :
          matrix = <<HeaderRow(Id0x100, NameA, Dlc8, AllCells(<<VCU_P>>, Tx))>> \o rows
    /\ DirectCall
    /\ StandardSheet
    /\ InitRun

InitNodes ==
    /\ node_columns \in NodeConfigs
    /\ \/ gen = "core" /\ target \in {Empty, <<"P">>}
       \/ gen = "standalone" /\ target \in {Empty, VCU_P}
    /\ out = OutFile
    /\ matrix \in SeqsUpTo(NodeRows(node_columns), MaxNodeRows)
    /\ DirectCall
    /\ StandardSheet
    /\ InitRun

\* factor and offset cells: empty, 1, 0.1, 0.0004; empty, -40, -0.5
Factors == {NumNaN, Num(FloatOfInt(1)), Num(Float(FALSE, 0, <<"1">>)),
            Num(Float(FALSE, 0, <<"0", "0", "0", "4">>))}
Offsets == {NumNaN, Num(FloatOfInt(-40)), Num(Float(TRUE, 0, <<"5">>))}

\* minimum and maximum cells: empty; 0 and 100.5; -40 and 0.9996
Limits == {<<NumNaN, NumNaN>>,
           <<Num(FloatOfInt(0)), Num(Float(FALSE, 100, <<"5">>))>>,
           <<Num(FloatOfInt(-40)), Num(Float(FALSE, 0, <<"9", "9", "9", "6">>))>>}

\* signal rows for the numbers of an SG_ line
NumberRows ==
    {WithValues(Row(NaN, NaN, NaN, Sig1, Num(1), Num(0), Num(16), NaN, AllCells(<<VCU_P>>, Rx)),
                f, o, l[1], l[2], NaN) : f \in Factors, o \in Offsets, l \in Limits}

\* unit cells: empty, or text over 'V', the ohm sign, the degree Celsius sign
\* and a CJK character
Units == {NaN} \cup SeqsUpTo({"V", Omega, DegreeCelsius, Zhong}, MaxUnitLen)

\* signal rows for the characters of an artifact
TextRows ==
    {WithValues(SignalRow(sig, NumNaN, NumNaN, NaN, AllCells(<<VCU_P>>, Rx)),
                NumNaN, NumNaN, NumNaN, NumNaN, unit) : sig \in {Sig1, SigZh}, unit \in Units}

\* the sheets main() reads: header rows and an empty row
CliColumns == {<<VCU_E, VCU_P>>, <<VCU_P>>, <<LV_CFG>>}
CliRows(cols) ==
    {HeaderRow(Id0x100, NameA, Dlc8, ind) : ind \in [Range(cols) -> {NaN, Tx}]}
    \cup {Row(NaN, NaN, NaN, NaN, NumNaN, NumNaN, NumNaN, NaN, AllCells(cols, NaN))}

\* texts typed into numeric cells
Abc == <<"a", "b", "c">>
Inf == <<"i", "n", "f">>

\* signal rows for the numeric fields: the start byte is 1 or a text, the
\* length is 0, -1, 64, 65 or a text, the factor is empty or a text
FieldRows ==
    {Row(NaN, NaN, NaN, Sig1, b, Num(0), l, NaN, AllCells(<<VCU_P>>, Rx)) :
        b \in {Num(1), Text(Abc)},
        l \in {Num(0), Num(-1), Num(64), Num(65), Text(Abc), Text(Inf)}}
    \cup {WithValues(Row(NaN, NaN, NaN, Sig2, Num(1), Num(0), Num(64), NaN,
                         AllCells(<<VCU_P>>, Rx)),
                     Text(Abc), NumNaN, NumNaN, NumNaN, NaN)}

InitFields ==
    /\ gen \in {"core", "standalone"}
    /\ node_columns = <<VCU_P>>
    /\ target = Empty
    /\ out = OutFile
    /\ \E rows \in SeqsUpTo(FieldRows, MaxFieldRows) :
          matrix = <<HeaderRow(Id0x100, NameA, Dlc8, AllCells(<<VCU_P>>, Tx))>> \o rows
    /\ DirectCall
    /\ StandardSheet
    /\ InitRun

\* DLC cells: empty, 8, 9, 12, 16
Dlc9 == <<"9">>
Dlc12 == <<"1", "2">>
Dlc16 == <<"1", "6">>
DlcCells == {NaN, Dlc8, Dlc9, Dlc12, Dlc16}

\* rows for the frames: header rows of MsgA with a DLC cell, the header row of
\* MsgB, which holds the signal name S2 itself, and a signal row S1
FrameRows ==
    {HeaderRow(Id0x100, NameA, dlc, AllCells(<<VCU_P>>, Tx)) : dlc \in DlcCells}
    \cup {Row(Id0x200, NameB, Dlc8, Sig2, NumNaN, NumNaN, NumNaN, NaN, AllCells(<<VCU_P>>, Tx)),
          SignalRow(Sig1, NumNaN, NumNaN, NaN, AllCells(<<VCU_P>>, Rx))}

\* the sheets: complete, without the message-id column, without the
\* signal-name column
Sheets ==
    {{MsgIdLabel, MsgNameLabel, SignalNameLabel}, {MsgNameLabel, SignalNameLabel},
     {MsgIdLabel, MsgNameLabel}}

InitFrames ==
    /\ \/ gen = "core" /\ is_canfd \in BOOLEAN
       \/ gen = "standalone" /\ is_canfd = FALSE
    /\ role_columns \in Sheets
    /\ node_columns = <<VCU_P>>
    /\ target = Empty
    /\ out = OutFile
    /\ matrix \in SeqsUpTo(FrameRows, MaxFrameRows)
    /\ DirectCall
    /\ InitRun

InitColumns ==
    /\ \/ gen = "cli" /\ pc = "main"
       \/ gen = "standalone" /\ pc = "load"
    /\ source \in {"ok", "unreadable"}
    /\ columns \in LabelConfigs
    /\ matrix \in {<< >>} \cup SeqsUpTo(CliRows(columns), MaxLabelRows)
    /\ node_columns = << >>
    /\ target = Empty
    /\ out = OutFile
    /\ StandardSheet
    /\ InitRun

InitNumbers ==
    /\ gen \in {"core", "standalone"}
    /\ node_columns = <<VCU_P>>
    /\ target = Empty
    /\ out = OutFile
    /\ \E rows \in SeqsUpTo(NumberRows, MaxSigRows) :
          matrix = <<HeaderRow(Id0x100, NameA, Dlc8, AllCells(<<VCU_P>>, Tx))>> \o rows
    /\ DirectCall
    /\ StandardSheet
    /\ InitRun

InitText ==
    /\ gen \in {"core", "standalone"}
    /\ node_columns = <<VCU_P>>
    /\ target = Empty
    /\ out = OutFile
    /\ \E name \in {NameA, NameZh} : \E rows \in SeqsUpTo(TextRows, MaxSigRows) :
          matrix = <<HeaderRow(Id0x100, name, Dlc8, AllCells(<<VCU_P>>, Tx))>> \o rows
    /\ DirectCall
    /\ StandardSheet
    /\ InitRun

InitCli ==
    /\ gen = "cli"
    /\ source \in {"ok", "unreadable", "no_sheet"}
    /\ columns \in CliColumns
    /\ matrix \in {<< >>} \cup SeqsUpTo(CliRows(columns), MaxCliRows)
    /\ node_columns = << >>
    /\ target \in {Empty, <<"P">>}
    /\ out = OutFile
    /\ pc = "main"
    /\ StandardSheet
    /\ InitRun

Spec == Init /\ [][Next]_vars
SpecLayout == InitLayout /\ [][Next]_vars
SpecNodes == InitNodes /\ [][Next]_vars
SpecNumbers == InitNumbers /\ [][Next]_vars
SpecText == InitText /\ [][Next]_vars
SpecCli == InitCli /\ [][NextCli]_vars
SpecFields == InitFields /\ [][Next]_vars
SpecColumns == InitColumns /\ [][NextSheet]_vars
SpecFrames == InitFrames /\ [][Next]_vars

(***************************************************************************)
(* Vocabulary of the properties: rows, artifacts and their lines.          *)
(***************************************************************************)
Max(S) == CHOOSE x \in S : \A y \in S : y <= x
Min(S) == CHOOSE x \in S : \A y \in S : x <= y

\* row i holds text in its message-id cell
HeaderAt(i) == ~IsNa(matrix[i].id) /\ Strip(matrix[i].id) # Empty

\* that text reads as an identifier: hexadecimal behind 0x / 0X, else decimal
ValidHeaderAt(i) == HeaderAt(i) /\ ParseMessageId(Strip(matrix[i].id)).ok

\* the numeric identifier of a valid header row, and its canonical decimal text
IdValueAt(i) == ParseMessageId(Strip(matrix[i].id)).val
CanonicalIdAt(i) == Str(IdValueAt(i))

\* row i has an empty message-id cell and a signal name
SignalRowAt(i) ==
    IsNa(matrix[i].id) /\ ~IsNa(matrix[i].sig) /\ Strip(matrix[i].sig) # Empty

\* the message a signal row belongs to: that of the closest header row above
\* it, when that header's id is valid
GroupKey(i) ==
    LET H == {j \in 1..(i - 1) : HeaderAt(j)}
    IN  IF H # {} /\ ValidHeaderAt(Max(H)) THEN CanonicalIdAt(Max(H)) ELSE None

\* the message a signal row belongs to when headers with an unparsable id
\* are passed over: that of the closest valid header row above it
GroupKeySkippingInvalid(i) ==
    LET H == {j \in 1..(i - 1) : ValidHeaderAt(j)}
    IN  IF H # {} THEN CanonicalIdAt(Max(H)) ELSE None

\* the signal rows among the first n rows that belong to message k, in row order
RECURSIVE GroupedRows(_, _)
GroupedRows(k, n) ==
    IF n = 0 THEN << >>
    ELSE IF SignalRowAt(n) /\ GroupKey(n) = k THEN Append(GroupedRows(k, n - 1), n)
    ELSE GroupedRows(k, n - 1)

RECURSIVE GroupedRowsSkippingInvalid(_, _)
GroupedRowsSkippingInvalid(k, n) ==
    IF n = 0 THEN << >>
    ELSE IF SignalRowAt(n) /\ GroupKeySkippingInvalid(n) = k
         THEN Append(GroupedRowsSkippingInvalid(k, n - 1), n)
    ELSE GroupedRowsSkippingInvalid(k, n - 1)

\* the rows the signal pass of the core generator has consumed
RowsSeen == IF pc = "signals" THEN idx ELSE Len(matrix)
InSignalPass == gen = "core" /\ pc \in {"signals", "write"}

SrcOf(sigs) == [j \in DOMAIN sigs |-> sigs[j].src]
NamesOf(sigs) == [j \in DOMAIN sigs |-> sigs[j].name]

\* every file on disk is a finished artifact
ArtifactsComplete ==
    \/ gen = "core" /\ pc \in {"loop", "done"}
    \/ gen = "standalone" /\ pc = "done"

\* positions of the BO_ and SG_ lines of an artifact
BoLines(f) == {i \in DOMAIN files[f] : files[f][i].kind = "BO_"}
SgLines(f) == {i \in DOMAIN files[f] : files[f][i].kind = "SG_"}

\* the SG_ lines of the block that the BO_ line at position i opens
BlockOf(f, i) ==
    LET later == {j \in BoLines(f) : j > i}
        last == IF later = {} THEN Len(files[f]) ELSE Min(later) - 1
    IN  SelectSeq(SubSeq(files[f], i + 1, last), LAMBDA line : line.kind = "SG_")

\* C1 as amended: while and after the core generator's signal pass, the
\* signals dict holds, for each message, exactly the rows with an empty
\* message-id cell and a signal name whose closest header row above has that
\* message's valid id, in row order; rows whose closest header is unparsable,
\* or that have no header above, are in no list.
C1_SignalsGroupedUnderLastHeader ==
    InSignalPass =>
        /\ DOMAIN signals =
              {GroupKey(i) : i \in {j \in 1..RowsSeen : SignalRowAt(j) /\ GroupKey(j) # None}}
        /\ \A k \in DOMAIN signals :
              /\ SrcOf(signals[k]) = GroupedRows(k, RowsSeen)
              /\ \A j \in DOMAIN signals[k] :
                    signals[k][j].name = Strip(matrix[signals[k][j].src].sig)

\* C1 as stated: the rows are grouped under the most recent header row with
\* a valid id, headers with an unparsable id being passed over.
C1_Original ==
    InSignalPass =>
        /\ DOMAIN signals =
              {GroupKeySkippingInvalid(i) :
                  i \in {j \in 1..RowsSeen :
                            SignalRowAt(j) /\ GroupKeySkippingInvalid(j) # None}}
        /\ \A k \in DOMAIN signals :
              SrcOf(signals[k]) = GroupedRowsSkippingInvalid(k, RowsSeen)

\* C1 witness: the pass is over and two signal rows were appended, in row
\* order, to the message of the header row above them.
C1_Witness ==
    /\ gen = "core" /\ pc = "write"
    /\ ValidHeaderAt(1)
    /\ \E k \in DOMAIN signals : SrcOf(signals[k]) = <<2, 3>>

\* the row the signal pass consumes next has an unparsable message id
AtInvalidHeader ==
    /\ gen = "core" /\ pc = "signals" /\ idx < Len(matrix)
    /\ HeaderAt(idx + 1) /\ ~ValidHeaderAt(idx + 1)

\* C2 as amended: a row whose message-id cell does not parse appends no
\* signal and leaves the assembler in NoCurrentMessage, whatever the state
\* before; a signal row directly after it is appended to no message.
C2_InvalidHeaderResets ==
    [][/\ AtInvalidHeader => (current' = None /\ signals' = signals)
       /\ (gen = "core" /\ pc = "signals" /\ idx >= 1 /\ idx < Len(matrix)
             /\ HeaderAt(idx) /\ ~ValidHeaderAt(idx) /\ SignalRowAt(idx + 1))
          => signals' = signals]_vars

\* C2 as stated: the row leaves the assembler state as it was.
C2_Original == [][AtInvalidHeader => current' = current]_vars

\* C2 witness: an unparsable header directly after a valid one has been
\* consumed, and the assembler is in NoCurrentMessage.
C2_Witness ==
    /\ gen = "core" /\ pc = "signals" /\ idx >= 2
    /\ ValidHeaderAt(idx - 1)
    /\ HeaderAt(idx) /\ ~ValidHeaderAt(idx)
    /\ current = None

\* C3: in every artifact of either generator, an SG_ line whose row holds a
\* start byte b >= 0 and a start bit s in 0..7 carries the start bit b*8 + s,
\* whatever byte order the row declares.
C3_StartBit ==
    \A f \in DOMAIN files : \A i \in SgLines(f) :
        LET row == matrix[files[f][i].src]
        IN  (~NumIsNa(row.sbyte) /\ ~NumIsNa(row.sbit)
               /\ row.sbyte.v >= 0 /\ row.sbit.v \in 0..7)
            => files[f][i].start = Str(row.sbyte.v * 8 + row.sbit.v)

\* C3 witness: an artifact holds the SG_ line of a row that declares Motorola
\* with start byte 1 and start bit 7, and the line reads start bit 15.
C3_Witness ==
    \E f \in DOMAIN files : \E i \in SgLines(f) :
        /\ matrix[files[f][i].src].order = Motorola
        /\ matrix[files[f][i].src].sbyte = Num(1)
        /\ matrix[files[f][i].src].sbit = Num(7)
        /\ files[f][i].start = <<"1", "5">>

\* C4: the identifier on every BO_ line is the canonical decimal text of the
\* value of the header row's id text, read as hexadecimal behind 0x / 0X and
\* as decimal otherwise.
C4_CanonicalDecimalId ==
    \A f \in DOMAIN files : \A i \in BoLines(f) :
        /\ ValidHeaderAt(files[f][i].src)
        /\ files[f][i].id = CanonicalIdAt(files[f][i].src)

\* the header rows of the canonical id of header row h, and the BO_ lines of
\* an artifact that carry its number
HeadersLike(h) == {j \in DOMAIN matrix : ValidHeaderAt(j) /\ IdValueAt(j) = IdValueAt(h)}
BoLinesFor(f, h) ==
    {i \in BoLines(f) : PyInt(files[f][i].id, 10).ok
                          /\ PyInt(files[f][i].id, 10).val = IdValueAt(h)}

\* C5: in an artifact of the core generator, a canonical id with two or more
\* header rows has one BO_ block, with the name and the DLC of the first of
\* these rows, holding the signal rows that follow any of them, in row order.
C5_RepeatedHeaderReusesMessage ==
    (gen = "core" /\ ArtifactsComplete) =>
        \A f \in DOMAIN files : \A h \in DOMAIN matrix :
            (ValidHeaderAt(h) /\ Cardinality(HeadersLike(h)) >= 2) =>
                /\ Cardinality(BoLinesFor(f, h)) = 1
                /\ \A i \in BoLinesFor(f, h) :
                      /\ files[f][i].src = Min(HeadersLike(h))
                      /\ files[f][i].name = Strip(StrOf(matrix[Min(HeadersLike(h))].name))
                      /\ files[f][i].dlc = Strip(matrix[Min(HeadersLike(h))].dlc)
                      /\ SrcOf(BlockOf(f, i)) = GroupedRows(CanonicalIdAt(h), Len(matrix))

\* C6: no two BO_ lines of an artifact carry the same numeric identifier.
C6_UniqueMessageIds ==
    ArtifactsComplete =>
        \A f \in DOMAIN files : \A i, j \in BoLines(f) :
            i # j => PyInt(files[f][i].id, 10).val # PyInt(files[f][j].id, 10).val

\* the node columns that read v in row i
ColumnsReading(i, v) == {c \in Range(node_columns) : matrix[i].ind[c] = v}

\* C7: the sender on a BO_ line is a node whose column reads 'Tx' in the
\* header row, and Vector__XXX when no column reads 'Tx' there.
C7_SenderIsTxNode ==
    \A f \in DOMAIN files : \A i \in BoLines(f) :
        IF ColumnsReading(files[f][i].src, Tx) = {}
        THEN files[f][i].sender = Vector__XXX
        ELSE files[f][i].sender \in ColumnsReading(files[f][i].src, Tx)

\* C8: the receivers on an SG_ line are exactly the nodes whose column reads
\* 'Rx' in the signal's row, and Vector__XXX alone when there is none.
C8_ReceiversAreRxNodes ==
    \A f \in DOMAIN files : \A i \in SgLines(f) :
        Range(files[f][i].receivers) =
            IF ColumnsReading(files[f][i].src, Rx) = {} THEN {Vector__XXX}
            ELSE ColumnsReading(files[f][i].src, Rx)

\* the node columns with at least one non-empty cell
ColumnsWithData ==
    {c \in Range(node_columns) : \E i \in DOMAIN matrix : ~IsNa(matrix[i].ind[c])}

\* <base>_<bus>CAN<ext>
ArtifactName(b) == out.base \o <<"_">> \o b \o <<"C", "A", "N">> \o out.ext

\* the core generator, called without a target bus, has returned True
CoreAllBusesDone == gen = "core" /\ target = Empty /\ pc = "done" /\ result = TRUE

\* C9 as amended: a call of the core generate_dbc without a target bus that
\* returns True has written exactly the artifacts <base>_<suffix>CAN<ext>, one
\* per distinct suffix, the suffix of a node column being the whole text after
\* its last underscore and only columns with a non-empty cell counting;
\* VCU_P and VCU_E with data give out_PCAN.dbc and out_ECAN.dbc.
C9_OneArtifactPerSuffix ==
    CoreAllBusesDone =>
        /\ DOMAIN files = {ArtifactName(LastPart(c)) : c \in ColumnsWithData}
        /\ (node_columns = <<VCU_E, VCU_P>> /\ ColumnsWithData = {VCU_E, VCU_P}) =>
              DOMAIN files =
                  {<<"o", "u", "t", "_", "P", "C", "A", "N", ".", "d", "b", "c">>,
                   <<"o", "u", "t", "_", "E", "C", "A", "N", ".", "d", "b", "c">>}

\* C9 as stated: the bus of a node column is the last character of its suffix.
C9_Original ==
    CoreAllBusesDone =>
        DOMAIN files =
            {ArtifactName(<<LastPart(c)[Len(LastPart(c))]>>) : c \in ColumnsWithData}

\* C9 witness: OTHER_NODE and VCU_E both hold data and the call has returned
\* True with two artifacts on disk.
C9_Witness ==
    /\ CoreAllBusesDone
    /\ node_columns = <<OTHER_NODE, VCU_E>>
    /\ ColumnsWithData = {OTHER_NODE, VCU_E}
    /\ Cardinality(DOMAIN files) = 2

\* the message of header row h references node column c: the column reads
\* 'Tx' or 'Rx' in the header row or in a signal row of the message
References(h, c) ==
    \/ matrix[h].ind[c] \in {Tx, Rx}
    \/ \E i \in DOMAIN matrix :
          SignalRowAt(i) /\ GroupKey(i) = CanonicalIdAt(h) /\ matrix[i].ind[c] \in {Tx, Rx}

\* the node columns of the bus of column c
ColumnsOfBus(c) == {d \in Range(node_columns) : LastPart(d) = LastPart(c)}

\* C10: in an artifact of the core generator, a message that references node
\* columns, none of them of the artifact's bus, has no BO_ block.
C10_OnlyMessagesOfTheBus ==
    (gen = "core" /\ ArtifactsComplete) =>
        \A c \in ColumnsWithData :
            ArtifactName(LastPart(c)) \in DOMAIN files =>
                \A i \in BoLines(ArtifactName(LastPart(c))) :
                    LET h == files[ArtifactName(LastPart(c))][i].src
                    IN  (\E d \in Range(node_columns) : References(h, d))
                        => \E d \in ColumnsOfBus(c) : References(h, d)

\* the BU_ lines of an artifact
BuLines(f) == {i \in DOMAIN files[f] : files[f][i].kind = "BU_"}

\* the node columns with data whose bus is that of the artifact f
ColumnsOfArtifact(f) == {c \in ColumnsWithData : ArtifactName(LastPart(c)) = f}

\* C11: the BU_ line of a bus's artifact lists exactly the node columns of
\* that bus that have a non-empty cell, each once, followed by Vector__XXX;
\* the standalone artifact, which is not per bus, lists node columns with a
\* non-empty cell only, followed by Vector__XXX.
C11_NodeListOfTheBus ==
    ArtifactsComplete =>
        \A f \in DOMAIN files :
            /\ Cardinality(BuLines(f)) = 1
            /\ \A i \in BuLines(f) :
                  LET nodes == files[f][i].nodes
                      listed == SubSeq(nodes, 1, Len(nodes) - 1)
                  IN  /\ nodes # << >> /\ nodes[Len(nodes)] = Vector__XXX
                      /\ \A j, k \in DOMAIN listed : j # k => listed[j] # listed[k]
                      /\ IF gen = "core" THEN Range(listed) = ColumnsOfArtifact(f)
                         ELSE Range(listed) \subseteq ColumnsWithData

\* the buses of the node columns with data
DetectedBuses == {LastPart(c) : c \in {d \in ColumnsWithData : Contains(d, "_")}}

\* C12: when the generation step of one bus raises inside the core
\* generate_dbc, every other detected bus has its artifact when the call
\* returns.
C12_FailureIsolatedPerBus ==
    (gen = "core" /\ target = Empty /\ pc = "done" /\ node_columns # << >>) =>
        \A b \in DetectedBuses :
            \/ result = FALSE /\ b = bus
            \/ ArtifactName(b) \in DOMAIN files

\* C13: main() exits with status 0 exactly when the run has written at least
\* one artifact.
C13_ExitStatusZeroIffArtifact ==
    (gen = "cli" /\ pc = "exit") => (exit_code = 0 <=> DOMAIN files # {})

\* the target bus is the bus of a node column with a non-empty cell
TargetHasData == target \in DetectedBuses

\* C14: the core generate_dbc called with a target bus creates no file but
\* that bus's artifact; it returns False and creates no file when the target
\* is not the bus of any node column with a non-empty cell; when the target
\* has data it returns True with that artifact written, or False with no file
\* when the file cannot be opened.
C14_TargetBusOnly ==
    (gen = "core" /\ target # Empty) =>
        /\ DOMAIN files \subseteq {ArtifactName(target)}
        /\ (pc = "done" /\ ~TargetHasData) => (result = FALSE /\ DOMAIN files = {})
        /\ (pc = "done" /\ TargetHasData) =>
              \/ result = TRUE /\ DOMAIN files = {ArtifactName(target)}
              \/ result = FALSE /\ DOMAIN files = {}

\* C14 witness: VCU_E and VCU_P both hold data, the call for bus P has
\* returned True and out_PCAN.dbc is the only file.
C14_Witness ==
    /\ gen = "core" /\ target = <<"P">> /\ pc = "done" /\ result = TRUE
    /\ ColumnsWithData = {VCU_E, VCU_P}
    /\ DOMAIN files = {<<"o", "u", "t", "_", "P", "C", "A", "N", ".", "d", "b", "c">>}

\* the sheet holds no row with a non-empty cell
NoDataRows == \A i \in DOMAIN matrix : AllNa(matrix[i])

\* generate_dbc has been entered
GenerationAttempted == pc \in {"start", "loop", "messages", "signals", "write", "done"}

\* C15: a run of main() whose source cannot be read, lacks the sheet, or has
\* no data rows exits non-zero with no artifact written, and generation is
\* attempted only after a read that yielded rows.
C15_NoGenerationWithoutRows ==
    gen = "cli" =>
        /\ (pc = "exit" /\ (source # "ok" \/ NoDataRows)) =>
              (exit_code # 0 /\ DOMAIN files = {})
        /\ GenerationAttempted => (source = "ok" /\ ~NoDataRows)

\* the texts on a line of an artifact
LineTexts(line) ==
    IF line.kind = "BU_" THEN Range(line.nodes)
    ELSE IF line.kind = "BO_" THEN {line.id, line.name, line.dlc, line.sender}
    ELSE IF line.kind = "SG_"
    THEN {line.name, line.start, line.length, line.factor, line.offset, line.min,
          line.max, line.unit} \cup Range(line.receivers)
    ELSE IF line.kind \in {"BA_", "VAL_"} THEN {line.id, line.sig}
    ELSE {}

\* C16: every character of every line of every artifact, of either
\* generator, has a code point below 128.
C16_ArtifactIsAscii ==
    \A f \in DOMAIN files : \A i \in DOMAIN files[f] :
        \A t \in LineTexts(files[f][i]) : \A k \in DOMAIN t : t[k] \notin NonAscii

\* the mapping of one character: ASCII to itself, the ohm sign to 'Ohm', the
\* degree Celsius sign to 'C', any other character to nothing
SanitizedChar(c) ==
    IF c \notin NonAscii THEN <<c>>
    ELSE IF c = Omega THEN <<"O", "h", "m">>
    ELSE IF c = DegreeCelsius THEN <<"C">>
    ELSE << >>

RECURSIVE Sanitized(_)
Sanitized(t) == IF t = << >> THEN << >> ELSE SanitizedChar(Head(t)) \o Sanitized(Tail(t))

\* C17: the unit on an SG_ line of the standalone generator is the unit cell
\* with each character mapped in order, ASCII to itself, the ohm sign to
\* 'Ohm', the degree Celsius sign to 'C' and any other character to nothing;
\* sanitizing it again changes nothing.
C17_SanitizerMapsEachCharacter ==
    gen = "standalone" =>
        \A f \in DOMAIN files : \A i \in SgLines(f) :
            LET cell == matrix[files[f][i].src].unit
            IN  /\ files[f][i].unit = (IF IsNa(cell) THEN Empty ELSE Sanitized(Strip(cell)))
                /\ Sanitized(files[f][i].unit) = files[f][i].unit

\* the number of characters behind the decimal point of a text that has one
FractionLength(t) == Len(t) - Min({k \in DOMAIN t : t[k] = "."})

\* a number rendered without decimal point, or with one to three fractional
\* digits and no trailing zero
Compact(t) ==
    \/ ~Contains(t, ".")
    \/ FractionLength(t) \in 1..3 /\ t[Len(t)] # "0"

\* the float of a numeric cell is a whole number
Integral(cell) == ~NumIsNa(cell) /\ cell.v.frac = << >>

\* C18: on every SG_ line, start, length, factor, offset, minimum and maximum
\* are rendered without decimal point when integral, and otherwise with at
\* most three fractional digits and no trailing zero; empty factor, offset,
\* minimum and maximum cells give (1,0) [0|0].
C18_CompactNumbers ==
    \A f \in DOMAIN files : \A i \in SgLines(f) :
        LET line == files[f][i]
            row == matrix[line.src]
        IN  /\ \A t \in {line.start, line.length, line.factor, line.offset,
                          line.min, line.max} : Compact(t)
            /\ Integral(row.factor) => ~Contains(line.factor, ".")
            /\ Integral(row.offset) => ~Contains(line.offset, ".")
            /\ Integral(row.min) => ~Contains(line.min, ".")
            /\ Integral(row.max) => ~Contains(line.max, ".")
            /\ NumIsNa(row.factor) => line.factor = <<"1">>
            /\ NumIsNa(row.offset) => line.offset = <<"0">>
            /\ NumIsNa(row.min) => line.min = <<"0">>
            /\ NumIsNa(row.max) => line.max = <<"0">>

\* the number a text of the grammar denotes: sign, integer digits, and the
\* fractional digits without trailing zeros
ReadNumber(t) ==
    LET body == Unsigned(t)
        dot == IF Contains(body, ".") THEN Min({k \in DOMAIN body : body[k] = "."})
               ELSE Len(body) + 1
    IN  Float(SignOf(t) = -1, DigitsValue(SubSeq(body, 1, dot - 1), 10),
              RStripChar(SubSeq(body, dot + 1, Len(body)), "0"))

\* two floats are the same number
SameNumber(x, y) ==
    /\ x.int = y.int /\ x.frac = y.frac
    /\ x.neg = y.neg \/ (x.int = 0 /\ x.frac = << >>)

\* the (start, length, factor, offset) tuple the grammar reads from an SG_ line
ReadTuple(line) ==
    <<PyInt(line.start, 10).val, PyInt(line.length, 10).val, ReadNumber(line.factor),
      ReadNumber(line.offset)>>

\* the tuple the row of a signal holds
RowTuple(row) ==
    <<(IF NumIsNa(row.sbyte) THEN 0 ELSE row.sbyte.v) * 8
        + (IF NumIsNa(row.sbit) THEN 0 ELSE row.sbit.v),
      IF NumIsNa(row.len) THEN DefaultLength ELSE row.len.v,
      IF NumIsNa(row.factor) THEN FloatOfInt(1) ELSE row.factor.v,
      IF NumIsNa(row.offset) THEN FloatOfInt(0) ELSE row.offset.v>>

\* C19: reading back the BO_ block of a message with N signal rows gives N
\* signals, in row order, whose (start, length, factor, offset) tuples equal
\* those of the rows.
C19_RoundTrip ==
    ArtifactsComplete =>
        \A f \in DOMAIN files : \A i \in BoLines(f) :
            LET block == BlockOf(f, i)
                rows == GroupedRows(CanonicalIdAt(files[f][i].src), Len(matrix))
            IN  /\ Len(block) = Len(rows)
                /\ \A j \in DOMAIN block :
                      /\ j <= Len(rows)
                      /\ IsDigit(block[j].start) /\ IsDigit(block[j].length)
                      /\ ReadTuple(block[j])[1] = RowTuple(matrix[rows[j]])[1]
                      /\ ReadTuple(block[j])[2] = RowTuple(matrix[rows[j]])[2]
                      /\ SameNumber(ReadTuple(block[j])[3], RowTuple(matrix[rows[j]])[3])
                      /\ SameNumber(ReadTuple(block[j])[4], RowTuple(matrix[rows[j]])[4])

\* the byte-order cell of the row is empty or contains 'intel' in any case
DeclaresIntel(row) ==
    IsNa(row.order) \/ HasSubstring(Lower(row.order), <<"i", "n", "t", "e", "l">>)

\* C20 as amended: every SG_ line of the core generator carries the flag 1
\* whatever byte order the row declares; an SG_ line of the standalone
\* generator carries 1 when the row's byte-order cell is empty or contains
\* 'intel', and 0 otherwise.
C20_ByteOrderFlag ==
    \A f \in DOMAIN files : \A i \in SgLines(f) :
        files[f][i].flag =
            IF gen = "core" \/ DeclaresIntel(matrix[files[f][i].src]) THEN "1" ELSE "0"

\* C20 as stated: every SG_ line of either generator carries the flag 1.
C20_Original ==
    \A f \in DOMAIN files : \A i \in SgLines(f) : files[f][i].flag = "1"

\* C20 witness: the standalone artifact holds the SG_ line of a row that
\* declares Motorola, with the flag 0.
C20_Witness ==
    /\ gen = "standalone"
    /\ \E f \in DOMAIN files : \E i \in SgLines(f) :
          /\ matrix[files[f][i].src].order = Motorola
          /\ files[f][i].flag = "0"

\* the VAL_ lines of an artifact, and its BA_ lines of one attribute
ValLines(f) == {i \in DOMAIN files[f] : files[f][i].kind = "VAL_"}
BaLines(f, attr) ==
    {i \in DOMAIN files[f] : files[f][i].kind = "BA_" /\ files[f][i].attr = attr}

\* the identifier of the message block that the SG_ line at position i is in
BlockIdOf(f, i) == files[f][Max({j \in BoLines(f) : j < i})].id

\* the lines among L that name the message id and the signal sig
Naming(f, L, id, sig) == {j \in L : files[f][j].id = id /\ files[f][j].sig = sig}

\* C21: in every artifact, behind the last message block, each SG_ line has
\* exactly one VAL_ line and one GenSigStartValue BA_ line that name its
\* message id and its name, each BO_ line has one GenMsgSendType and one
\* GenMsgCycleTime BA_ line with its id, and no VAL_ or BA_ line names a
\* message or a signal that has no BO_ or SG_ line.
C21_AttributeLinesMatchBlocks ==
    ArtifactsComplete =>
        \A f \in DOMAIN files :
            /\ \A i \in SgLines(f) :
                  /\ Cardinality(Naming(f, ValLines(f), BlockIdOf(f, i), files[f][i].name)) = 1
                  /\ Cardinality(Naming(f, BaLines(f, "GenSigStartValue"),
                                        BlockIdOf(f, i), files[f][i].name)) = 1
            /\ \A i \in BoLines(f) :
                  /\ Cardinality(Naming(f, BaLines(f, "GenMsgSendType"), files[f][i].id, Empty)) = 1
                  /\ Cardinality(Naming(f, BaLines(f, "GenMsgCycleTime"), files[f][i].id, Empty)) = 1
            /\ \A j \in ValLines(f) \cup BaLines(f, "GenSigStartValue") :
                  /\ \E i \in SgLines(f) :
                        BlockIdOf(f, i) = files[f][j].id /\ files[f][i].name = files[f][j].sig
                  /\ \A i \in BoLines(f) \cup SgLines(f) : i < j
            /\ \A j \in BaLines(f, "GenMsgSendType") \cup BaLines(f, "GenMsgCycleTime") :
                  /\ \E i \in BoLines(f) : files[f][i].id = files[f][j].id
                  /\ \A i \in BoLines(f) \cup SgLines(f) : i < j

\* row i is a signal row with a text that is no number in one of its numeric
\* cells: start byte, start bit, length, factor, offset, minimum, maximum
NonNumericAt(i) ==
    /\ ~IsNa(matrix[i].sig) /\ Strip(matrix[i].sig) # Empty
    /\ \E cell \in {matrix[i].sbyte, matrix[i].sbit, matrix[i].len, matrix[i].factor,
                    matrix[i].offset, matrix[i].min, matrix[i].max} : cell.k = "text"

\* the artifacts hold an SG_ line of row i
HasSgLine(i) == \E f \in DOMAIN files : \E j \in SgLines(f) : files[f][j].src = i

\* C23: a signal row with a non-numeric value in a numeric field is skipped:
\* it has no SG_ line, the run does not fail, and the signal rows behind it
\* that hold numbers have their SG_ lines.
C23_NonNumericRowSkipped ==
    (pc = "done" /\ \E i \in DOMAIN matrix : NonNumericAt(i)) =>
        /\ result = TRUE
        /\ \A i \in DOMAIN matrix : NonNumericAt(i) => ~HasSgLine(i)
        /\ \A i \in DOMAIN matrix : (SignalRowAt(i) /\ ~NonNumericAt(i)) => HasSgLine(i)

\* C25: the bit length on every SG_ line is in 1..64.
C25_LengthInRange ==
    \A f \in DOMAIN files : \A i \in SgLines(f) :
        /\ PyInt(files[f][i].length, 10).ok
        /\ PyInt(files[f][i].length, 10).val \in 1..64

\* the label has an underscore, an alphabetic upper-case text behind the last
\* one, no 'LV' at its start and no 'EV' at its end
NodeIndicatorLabel(label) ==
    /\ Contains(label, "_")
    /\ LastPart(label) # << >>
    /\ \A i \in DOMAIN LastPart(label) : LastPart(label)[i] \in Range(UpperLetters)
    /\ ~StartsWith(PrefixOf(label), <<"L", "V">>)
    /\ ~EndsWith(label, <<"E", "V">>)

\* the sheet has been read and its columns have been classified
ColumnsClassified ==
    /\ source = "ok"
    /\ \/ gen = "cli" /\ pc \notin {"main", "nodes"}
       \/ gen = "standalone" /\ pc # "load"

\* C22: the node columns are exactly the labels with an underscore, an
\* alphabetic upper-case suffix, a prefix that does not start with 'LV' and no
\* 'EV' at the end of the label; VCU_P is one, LV1_EV is none.
C22_NodeColumnClassification ==
    ColumnsClassified =>
        /\ Range(node_columns) = {c \in Range(columns) : NodeIndicatorLabel(c)}
        /\ VCU_P \in Range(columns) => VCU_P \in Range(node_columns)
        /\ LV1_EV \notin Range(node_columns)

\* the DLC range the CAN-FD flag selects
DlcRange == IF is_canfd THEN 0..15 ELSE 0..8

\* the DLC cell of row i holds a number of the selected range
DlcInRangeAt(i) ==
    /\ ~IsNa(matrix[i].dlc) /\ IsDigit(Strip(matrix[i].dlc))
    /\ PyInt(matrix[i].dlc, 10).val \in DlcRange

\* C24: the DLC on every BO_ line of the core generator is in 0..8 when the
\* CAN-FD flag is unset and in 0..15 when it is set; a cell in the selected
\* range is written as it is, any other cell as the default 8.
C24_DlcRangeByCanFd ==
    gen = "core" =>
        \A f \in DOMAIN files : \A i \in BoLines(f) :
            /\ PyInt(files[f][i].dlc, 10).val \in DlcRange
            /\ files[f][i].dlc = IF DlcInRangeAt(files[f][i].src)
                                 THEN Strip(matrix[files[f][i].src].dlc)
                                 ELSE Str(DefaultDlc)

\* C26: the core generate_dbc writes an artifact only with at least one
\* message that has at least one signal; without a message-id column or
\* without a signal-name column the extraction is empty and raises nothing,
\* and no artifact without messages is written.
C26_NoArtifactWithoutMessages ==
    gen = "core" =>
        /\ ArtifactsComplete =>
              \A f \in DOMAIN files : \E i \in BoLines(f) : BlockOf(f, i) # << >>
        /\ (pc = "write" /\ ~HasMessageIdColumn(role_columns)) =>
              (messages = << >> /\ signals = << >>)
        /\ (pc = "write" /\ ~HasSignalNameColumn(role_columns)) => signals = << >>

\* C27: in the core generator the two passes compute the same key from a
\* header row's id text, so that every key of the signals dict is a key of
\* the messages dict and every extracted signal has its SG_ line in the block
\* of its message.
C27_SameKeyInBothPasses ==
    gen = "core" =>
        /\ pc = "write" => DOMAIN signals \subseteq Keys(messages)
        /\ (bus # Empty /\ (pc = "loop" \/ (pc = "done" /\ result = TRUE))) =>
              \A k \in DOMAIN signals : \A j \in DOMAIN signals[k] :
                  \E i \in SgLines(BusOutputFile(bus)) :
                      /\ files[BusOutputFile(bus)][i].src = signals[k][j].src
                      /\ PyInt(BlockIdOf(BusOutputFile(bus), i), 10).val = PyInt(k, 10).val

\* C28: when the core generate_dbc has returned False, no file has been
\* created or overwritten by the call.
C28_NoFileOnFailure ==
    (gen = "core" /\ pc = "done" /\ result = FALSE) => DOMAIN files = {}

\* the nodes listed on the BU_ lines of an artifact
BuNodes(f) == UNION {Range(files[f][i].nodes) : i \in BuLines(f)}

\* C29: the sender of every BO_ line and every receiver of every SG_ line is
\* listed on the BU_ line of the artifact.
C29_NodesAreDeclared ==
    \A f \in DOMAIN files :
        /\ \A i \in BoLines(f) : files[f][i].sender \in BuNodes(f)
        /\ \A i \in SgLines(f) : Range(files[f][i].receivers) \subseteq BuNodes(f)

\* the messages and signals the core passes extract from the first n rows
RECURSIVE CoreMessagesOf(_)
CoreMessagesOf(n) ==
    IF n = 0 THEN << >> ELSE extract_messages_row(CoreMessagesOf(n - 1), matrix[n], n)

RECURSIVE CoreCurrentOf(_)
CoreCurrentOf(n) == IF n = 0 THEN None ELSE next_current_msg_id(CoreCurrentOf(n - 1), matrix[n])

RECURSIVE CoreSignalsOf(_)
CoreSignalsOf(n) ==
    IF n = 0 THEN << >>
    ELSE extract_signals_row(CoreSignalsOf(n - 1), CoreCurrentOf(n - 1), matrix[n], n)

\* the messages and signals the standalone passes extract from the first n rows
RECURSIVE SaMessagesOf(_)
SaMessagesOf(n) ==
    IF n = 0 THEN << >> ELSE extract_message_info_row(SaMessagesOf(n - 1), matrix[n], n)

RECURSIVE SaCurrentOf(_)
SaCurrentOf(n) == IF n = 0 THEN Empty ELSE next_current_msg_name(SaCurrentOf(n - 1), matrix[n])

RECURSIVE SaSignalsOf(_)
SaSignalsOf(n) ==
    IF n = 0 THEN << >>
    ELSE extract_signal_info_row(SaSignalsOf(n - 1), SaCurrentOf(n), matrix[n], n)

\* the grouping of either generator: each message's name with the names of
\* its signals, in order
CoreGrouping ==
    LET msgs == CoreMessagesOf(Len(matrix))
        sigs == CoreSignalsOf(Len(matrix))
    IN  {<<msgs[i].name, IF msgs[i].key \in DOMAIN sigs THEN NamesOf(sigs[msgs[i].key])
                         ELSE << >>>> : i \in DOMAIN msgs}

SaGrouping ==
    LET msgs == SaMessagesOf(Len(matrix))
        sigs == SaSignalsOf(Len(matrix))
    IN  {<<msgs[i].key, [j \in DOMAIN SignalsOf(msgs[i], sigs) |->
                            SignalsOf(msgs[i], sigs)[j].sig_name]>> : i \in DOMAIN msgs}

\* the grouping an artifact shows: the name on each BO_ line with the names on
\* the SG_ lines of its block
ArtifactGrouping(f) == {<<files[f][i].name, NamesOf(BlockOf(f, i))>> : i \in BoLines(f)}

\* C30: over the same rows of a complete sheet, the core generator, which
\* groups by the message-id cell, and the standalone generator, which groups
\* by the message-name cell, give the same signal names to the same messages
\* in the same order: the artifact of each shows the grouping of the other.
C30_SameGroupingInBothGenerators ==
    (pc = "done" /\ result = TRUE /\ role_columns = {MsgIdLabel, MsgNameLabel, SignalNameLabel}) =>
        \A f \in DOMAIN files :
            ArtifactGrouping(f) = IF gen = "core" THEN SaGrouping ELSE CoreGrouping

=============================================================================
